---- MODULE Spec2Model ----
(***************************************************************************)
(* A model of flightTracker.py: the HHMM time codec, the FDP limit lookup, *)
(* the per-role duty evaluation, the aircraft card, the fleet summary and  *)
(* the session table with its "Add Aircraft" and "Simulate +30min"         *)
(* handlers.                                                               *)
(*                                                                         *)
(* Python values are records [k, s, n]: k is the type, s the characters of *)
(* a str (a sequence of one-character strings), n the number of an int or  *)
(* of a float.  A float is represented by its integer part (the model only *)
(* multiplies integral floats, and int() truncates the others); nan and    *)
(* inf are values of their own.  A call returns [exc, val]: exc is "none"  *)
(* or the name of the exception the call raised.                           *)
(***************************************************************************)
EXTENDS Integers, Sequences, FiniteSets, TLC

VARIABLES
    aircraft_data,      \* st.session_state.aircraft_data: the rows of the table
    run_data,           \* the table as the last script run read it
    progress,           \* per row, the three evaluations of the dashboard loop
    cards,              \* per row, the card_class of create_aircraft_card
    stats,              \* the sidebar's metrics
    critical_aircraft,  \* the alert panel's critical list
    warning_aircraft,   \* the alert panel's warning list
    uncaught,           \* the exception that ended the last script run, or "none"
    pc,                 \* the position of a single call of a function
    arg,                \* the arguments of that call
    mid,                \* the result of the first step of a chain of calls
    ret                 \* the result of the last call

vars == <<aircraft_data, run_data, progress, cards, stats, critical_aircraft,
          warning_aircraft, uncaught, pc, arg, mid, ret>>

appvars == <<aircraft_data, run_data, progress, cards, stats, critical_aircraft,
             warning_aircraft, uncaught>>

callvars == <<pc, arg, mid, ret>>

(***************************************************************************)
(* Bounds of the model.                                                    *)
(***************************************************************************)
\* minutes_to_hhmm is applied to every minute count in 0..MaxMinutes
MaxMinutes == 3000
\* segment counts run over 1..MaxSegments
MaxSegments == 4
\* max-FDP hours run over 0..MaxHours
MaxHours == 15
\* the table holds at most MaxRows rows
MaxRows == 4

(***************************************************************************)
(* Python values and results.                                              *)
(***************************************************************************)
StrV(s) == [k |-> "str", s |-> s, n |-> 0]
IntV(n) == [k |-> "int", s |-> <<>>, n |-> n]
FloatV(n) == [k |-> "float", s |-> <<>>, n |-> n]
None == [k |-> "None", s |-> <<>>, n |-> 0]
NaN == [k |-> "nan", s |-> <<>>, n |-> 0]
Inf == [k |-> "inf", s |-> <<>>, n |-> 0]

Ok(v) == [exc |-> "none", val |-> v]
Raise(e) == [exc |-> e, val |-> None]

Digits == <<"0", "1", "2", "3", "4", "5", "6", "7", "8", "9">>
IsDigit(c) == \E d \in 1..10 : Digits[d] = c
DigitValue(c) == (CHOOSE d \in 1..10 : Digits[d] = c) - 1
AllDigits(s) == \A i \in 1..Len(s) : IsDigit(s[i])

RECURSIVE StrToNat(_)
StrToNat(s) ==
    IF Len(s) = 0 THEN 0
    ELSE 10 * StrToNat(SubSeq(s, 1, Len(s) - 1)) + DigitValue(s[Len(s)])

RECURSIVE NatToStr(_)
NatToStr(n) ==
    IF n < 10 THEN <<Digits[n + 1]>>
    ELSE NatToStr(n \div 10) \o <<Digits[(n % 10) + 1]>>

\* str(x) of an int or a str
PyStr(v) ==
    IF v.k = "str" THEN v.s
    ELSE IF v.n < 0 THEN <<"-">> \o NatToStr(-v.n) ELSE NatToStr(v.n)

RECURSIVE Zeros(_)
Zeros(n) == IF n <= 0 THEN <<>> ELSE <<"0">> \o Zeros(n - 1)

\* str.zfill(width): pads after a leading sign
zfill(s, width) ==
    IF Len(s) >= width THEN s
    ELSE IF Len(s) > 0 /\ s[1] \in {"+", "-"}
         THEN <<s[1]>> \o Zeros(width - Len(s)) \o Tail(s)
         ELSE Zeros(width - Len(s)) \o s

RECURSIVE Strip(_)
Strip(s) ==
    IF Len(s) > 0 /\ s[1] = " " THEN Strip(Tail(s))
    ELSE IF Len(s) > 0 /\ s[Len(s)] = " " THEN Strip(SubSeq(s, 1, Len(s) - 1))
    ELSE s

HasSign(s) == Len(s) > 0 /\ s[1] \in {"+", "-"}
Unsigned(s) == IF HasSign(s) THEN Tail(s) ELSE s
Signed(s, n) == IF Len(s) > 0 /\ s[1] = "-" THEN -n ELSE n

\* int(s) of a stripped str t whose unsigned part is u
IntOfParts(t, u) ==
    IF Len(u) > 0 /\ AllDigits(u) THEN Ok(IntV(Signed(t, StrToNat(u))))
    ELSE Raise("ValueError")

IntOfStripped(t) == IntOfParts(t, Unsigned(t))

\* int(s) of a str: optional sign, then decimal digits
IntOfStr(s) == IntOfStripped(Strip(s))

\* the position of the first "." of s, or 0
DotAt(s) ==
    IF \E i \in 1..Len(s) : s[i] = "."
    THEN CHOOSE i \in 1..Len(s) : s[i] = "." /\ \A j \in 1..(i - 1) : s[j] # "."
    ELSE 0

\* the float of digits whole "." frac under the sign of t, as its integer part
FloatOfDigits(t, whole, frac) ==
    IF AllDigits(whole) /\ AllDigits(frac) /\ Len(whole) + Len(frac) > 0
    THEN Ok(FloatV(Signed(t, StrToNat(whole))))
    ELSE Raise("ValueError")

FloatOfSplit(t, u, d) ==
    IF d = 0 THEN FloatOfDigits(t, u, <<>>)
    ELSE FloatOfDigits(t, SubSeq(u, 1, d - 1), SubSeq(u, d + 1, Len(u)))

FloatOfParts(t, u) ==
    IF u = <<"i", "n", "f">> THEN Ok(Inf)
    ELSE IF u = <<"n", "a", "n">> THEN Ok(NaN)
    ELSE FloatOfSplit(t, u, DotAt(u))

FloatOfStripped(t) == FloatOfParts(t, Unsigned(t))

\* float(x): of a str, optional sign then digits with at most one point, or
\* inf, or nan
PyFloat(v) ==
    IF v.k \in {"int", "float"} THEN Ok(FloatV(v.n))
    ELSE IF v.k \in {"nan", "inf"} THEN Ok(v)
    ELSE IF v.k = "None" THEN Raise("TypeError")
    ELSE FloatOfStripped(Strip(v.s))

\* int(x) of a float
IntOfFloat(v) ==
    IF v.k = "nan" THEN Raise("ValueError")
    ELSE IF v.k = "inf" THEN Raise("OverflowError")
    ELSE Ok(IntV(v.n))

\* pd.isna(x) of a scalar
isna(v) == v.k \in {"None", "nan"}

(***************************************************************************)
(* The time codec.                                                         *)
(***************************************************************************)
\* lines 101-103
hhmm_range_check(hours, minutes) ==
    IF hours < 0 \/ hours > 23 \/ minutes < 0 \/ minutes > 59 THEN Ok(IntV(0))
    ELSE Ok(IntV(hours * 60 + minutes))

\* lines 99-100: hhmm_str[:2] and hhmm_str[2:] of the padded digits of an int
hhmm_split(hhmm_str) ==
    hhmm_range_check(IntOfStr(SubSeq(hhmm_str, 1, 2)).val.n,
                     IntOfStr(SubSeq(hhmm_str, 3, Len(hhmm_str))).val.n)

\* line 98, from the int on: str(...).zfill(4)
hhmm_of_int(i) ==
    IF i.exc # "none" THEN i ELSE hhmm_split(zfill(PyStr(i.val), 4))

\* line 98, from the float on: int(...)
hhmm_of_float(f) ==
    IF f.exc # "none" THEN f ELSE hhmm_of_int(IntOfFloat(f.val))

\* lines 104-105: except (ValueError, TypeError) returns 0, anything else
\* propagates
hhmm_except(r) ==
    IF r.exc \in {"ValueError", "TypeError"} THEN Ok(IntV(0)) ELSE r

\* hhmm_to_minutes
hhmm_to_minutes(hhmm) ==
    IF isna(hhmm) \/ hhmm = StrV(<<>>) \/ hhmm = None THEN Ok(IntV(0))
    ELSE hhmm_except(hhmm_of_float(PyFloat(hhmm)))

\* f"{n:02d}" of a non-negative int
Format02d(n) == zfill(NatToStr(n), 2)

\* lines 112-115 with line 114 left out: the hours are not wrapped
hhmm_format_nowrap(t) ==
    Ok(StrV(Format02d(t \div 60) \o Format02d(t % 60)))

\* lines 112-115: hours = hours % 24 if hours >= 24 else hours
hhmm_format(t) ==
    Ok(StrV(Format02d(IF t \div 60 >= 24 THEN (t \div 60) % 24 ELSE t \div 60)
            \o Format02d(t % 60)))

\* minutes_to_hhmm of a number: nan <= 0 is false, and int() raises on nan
\* and on inf
minutes_to_hhmm(total_minutes) ==
    IF total_minutes.k = "nan" THEN Raise("ValueError")
    ELSE IF total_minutes.k = "inf" THEN Raise("OverflowError")
    ELSE IF total_minutes.n <= 0 THEN Ok(StrV(<<"0", "0", "0", "0">>))
    ELSE hhmm_format(total_minutes.n)

(***************************************************************************)
(* The FDP limit lookup.                                                   *)
(***************************************************************************)
\* lines 121-128
fdp_band(hours, segments) ==
    IF 500 <= hours /\ hours <= 759 THEN (IF segments <= 2 THEN IntV(14) ELSE IntV(13))
    ELSE IF 800 <= hours /\ hours <= 1259 THEN (IF segments <= 2 THEN IntV(13) ELSE IntV(12))
    ELSE IF 1300 <= hours /\ hours <= 1659 THEN (IF segments <= 2 THEN IntV(12) ELSE IntV(11))
    ELSE (IF segments <= 2 THEN IntV(11) ELSE IntV(10))

\* lines 119-130: the bare except returns 9
fdp_of_hours(parsed, segments) ==
    IF parsed.exc # "none" THEN IntV(9) ELSE fdp_band(parsed.val.n, segments)

\* calculate_fdp_limits: hours is the int of the first two characters
calculate_fdp_limits(start_time_hhmm, segments) ==
    fdp_of_hours(IntOfStr(SubSeq(zfill(PyStr(start_time_hhmm), 4), 1, 2)), segments)

(***************************************************************************)
(* The duty status evaluation.                                             *)
(***************************************************************************)
Roles == <<"CA", "FO", "Cabin">>

MaxColumn(crew_type) ==
    IF crew_type = "CA" THEN "CA Max FDP (hours)"
    ELSE IF crew_type = "FO" THEN "FO Max FDP (hours)"
    ELSE "Cabin Max FDP (hours)"

ElapsedColumn(crew_type) ==
    IF crew_type = "CA" THEN "CA Elapsed FDP (HHMM)"
    ELSE IF crew_type = "FO" THEN "FO Elapsed FDP (HHMM)"
    ELSE "Cabin Elapsed FDP (HHMM)"

\* row[column]
GetItem(row, column) ==
    IF column \in DOMAIN row THEN Ok(row[column]) ELSE Raise("KeyError")

RECURSIVE Repeat(_, _)
Repeat(s, n) == IF n <= 0 THEN <<>> ELSE s \o Repeat(s, n - 1)

\* max_time * 60: a str is repeated, None has no product
Times60(v) ==
    IF v.k \in {"int", "float"} THEN Ok([v EXCEPT !.n = v.n * 60])
    ELSE IF v.k \in {"nan", "inf"} THEN Ok(v)
    ELSE IF v.k = "str" THEN Ok(StrV(Repeat(v.s, 60)))
    ELSE Raise("TypeError")

\* a - b, b an int
Minus(a, b) ==
    IF a.k \in {"int", "float"} THEN Ok([a EXCEPT !.n = a.n - b.n])
    ELSE IF a.k \in {"nan", "inf"} THEN Ok(a)
    ELSE Raise("TypeError")

\* x > c of a number x: every comparison with nan is false
Greater(x, c) == x.k = "inf" \/ (x.k \in {"int", "float"} /\ x.n > c)

\* max(0, d): max keeps its first argument unless the second is greater
Max0(d) ==
    IF d.exc # "none" THEN d ELSE IF Greater(d.val, 0) THEN d ELSE Ok(IntV(0))

\* line 148 without the max(0, ...)
remaining_of_unclamped(max_minutes, elapsed_minutes) ==
    Minus(max_minutes, elapsed_minutes)

\* line 148: max(0, max_minutes - elapsed_minutes)
remaining_of(max_minutes, elapsed_minutes) ==
    Max0(Minus(max_minutes, elapsed_minutes))

\* line 149: the percent as the fraction num/den, 100 being 100/1
percent_of(max_minutes, elapsed_minutes) ==
    IF ~Greater(max_minutes, 0) THEN [num |-> 0, den |-> 1]
    ELSE IF max_minutes.k = "inf" THEN [num |-> 0, den |-> 1]
    ELSE IF elapsed_minutes.n * 100 >= 100 * max_minutes.n THEN [num |-> 100, den |-> 1]
    ELSE [num |-> elapsed_minutes.n * 100, den |-> max_minutes.n]

\* lines 152-160 with < where the code has <=
status_of_strict(remaining_minutes) ==
    IF remaining_minutes.k # "inf" /\ remaining_minutes.n < 60
    THEN [color |-> "#e74c3c", status |-> "critical"]
    ELSE IF remaining_minutes.k # "inf" /\ remaining_minutes.n < 120
    THEN [color |-> "#f39c12", status |-> "warning"]
    ELSE [color |-> "#2ecc71", status |-> "ok"]

\* lines 152-160
status_of(remaining_minutes) ==
    IF ~Greater(remaining_minutes, 60)
    THEN [color |-> "#e74c3c", status |-> "critical"]
    ELSE IF ~Greater(remaining_minutes, 120)
    THEN [color |-> "#f39c12", status |-> "warning"]
    ELSE [color |-> "#2ecc71", status |-> "ok"]

\* lines 171-178: the record of the except branch
ErrorData ==
    [progress_percent |-> [num |-> 0, den |-> 1],
     remaining_hhmm |-> StrV(<<"0", "0", "0", "0">>),
     elapsed_hhmm |-> StrV(<<"0", "0", "0", "0">>),
     max_hhmm |-> StrV(<<"0", "0", "0", "0">>),
     color |-> "#95a5a6",
     status |-> "error",
     remaining_minutes |-> None]

\* lines 162-169: the record returned, which the model extends with the local
\* remaining_minutes; minutes_to_hhmm may have raised
progress_record(elapsed, percent, remaining_minutes, tier, remaining_hhmm, max_hhmm) ==
    IF remaining_hhmm.exc # "none" THEN remaining_hhmm
    ELSE IF max_hhmm.exc # "none" THEN max_hhmm
    ELSE Ok([progress_percent |-> percent,
             remaining_hhmm |-> remaining_hhmm.val,
             elapsed_hhmm |-> elapsed,
             max_hhmm |-> max_hhmm.val,
             color |-> tier.color,
             status |-> tier.status,
             remaining_minutes |-> remaining_minutes])

\* lines 149-169, given the remaining minutes of line 148
progress_of_remaining(elapsed, max_minutes, elapsed_minutes, remaining_minutes) ==
    IF remaining_minutes.exc # "none" THEN remaining_minutes
    ELSE progress_record(elapsed, percent_of(max_minutes, elapsed_minutes),
                         remaining_minutes.val, status_of(remaining_minutes.val),
                         minutes_to_hhmm(remaining_minutes.val),
                         minutes_to_hhmm(max_minutes))

\* lines 148-169, given the results of lines 145 and 146
progress_of_minutes(elapsed, max_minutes, elapsed_minutes) ==
    IF max_minutes.exc # "none" THEN max_minutes
    ELSE IF elapsed_minutes.exc # "none" THEN elapsed_minutes
    ELSE progress_of_remaining(elapsed, max_minutes.val, elapsed_minutes.val,
                               remaining_of(max_minutes.val, elapsed_minutes.val))

\* lines 145-169, given the two fields read from the row
progress_of_fields(max_time, elapsed) ==
    IF max_time.exc # "none" THEN max_time
    ELSE IF elapsed.exc # "none" THEN elapsed
    ELSE progress_of_minutes(elapsed.val, Times60(max_time.val),
                             hhmm_to_minutes(elapsed.val))

\* lines 135-169: the body of the try
progress_try(row, crew_type) ==
    progress_of_fields(GetItem(row, MaxColumn(crew_type)),
                       GetItem(row, ElapsedColumn(crew_type)))

\* lines 170-178 with an except clause as narrow as that of hhmm_to_minutes
progress_except_narrow(r) ==
    IF r.exc \in {"ValueError", "TypeError"} THEN Ok(ErrorData) ELSE r

\* lines 170-178: except Exception absorbs every failure of the body
progress_except(r) ==
    IF r.exc # "none" THEN Ok(ErrorData) ELSE r

\* calculate_progress_data
calculate_progress_data(row, crew_type) ==
    progress_except(progress_try(row, crew_type))

(***************************************************************************)
(* The aircraft card and the fleet summary.                                *)
(***************************************************************************)
\* the three evaluations of one row, as each loop of main computes them
RoleData(aircraft) ==
    [crew_type \in {"CA", "FO", "Cabin"} |->
        calculate_progress_data(aircraft, crew_type).val]

\* data['status'] for data in [ca_data, fo_data, cabin_data]
Statuses(role_data) == [i \in 1..3 |-> role_data[Roles[i]].status]

In(x, list) == \E i \in 1..Len(list) : list[i] = x

\* lines 209-217 with the warning test ahead of the critical test
card_class_warning_first(statuses) ==
    IF In("warning", statuses) THEN "warning-card"
    ELSE IF In("critical", statuses) THEN "critical-card"
    ELSE "aircraft-card"

\* lines 209-217
card_class_of(statuses) ==
    IF In("critical", statuses) THEN "critical-card"
    ELSE IF In("warning", statuses) THEN "warning-card"
    ELSE "aircraft-card"

\* create_aircraft_card: the card class, the tail number and the headline
create_aircraft_card(tail_number, role_data) ==
    [card_class |-> card_class_of(Statuses(role_data)),
     tail_number |-> tail_number,
     headline |-> role_data["CA"].remaining_hhmm]

\* lines 345-348: the counters after one row
stats_step(statuses, counts) ==
    IF In("critical", statuses)
    THEN [counts EXCEPT !.critical_count = counts.critical_count + 1]
    ELSE IF In("warning", statuses)
    THEN [counts EXCEPT !.warning_count = counts.warning_count + 1]
    ELSE counts

\* lines 340-348: the sidebar's loop over the rows from row i on
RECURSIVE StatsLoop(_, _, _)
StatsLoop(data, i, counts) ==
    IF i > Len(data) THEN counts
    ELSE StatsLoop(data, i + 1, stats_step(Statuses(RoleData(data[i])), counts))

\* the sidebar shows no metric for an empty table
NoStats == [total |-> 0, critical_count |-> 0, warning_count |-> 0]

\* lines 335-352
SidebarStats(data) ==
    IF Len(data) = 0 THEN NoStats
    ELSE StatsLoop(data, 1,
            [total |-> Len(data), critical_count |-> 0, warning_count |-> 0])

\* lines 366-377: the evaluations of one row and its card
dashboard_entry(tail_number, role_data) ==
    [progress |-> role_data, card |-> create_aircraft_card(tail_number, role_data)]

\* lines 360-378: the dashboard's loop
Dashboard(data) ==
    [i \in 1..Len(data) |-> dashboard_entry(data[i]["Tail Number"], RoleData(data[i]))]

\* lines 396-399 with the elif written as a second if
alert_step_two_ifs(tail_number, statuses, lists) ==
    [critical |-> IF In("critical", statuses) THEN Append(lists.critical, tail_number)
                  ELSE lists.critical,
     warning |-> IF In("warning", statuses) THEN Append(lists.warning, tail_number)
                 ELSE lists.warning]

\* lines 396-399: the lists after one row
alert_step(tail_number, statuses, lists) ==
    IF In("critical", statuses)
    THEN [lists EXCEPT !.critical = Append(lists.critical, tail_number)]
    ELSE IF In("warning", statuses)
    THEN [lists EXCEPT !.warning = Append(lists.warning, tail_number)]
    ELSE lists

\* lines 390-399: the alert panel's loop over the rows from row i on
RECURSIVE AlertLoop(_, _, _)
AlertLoop(data, i, lists) ==
    IF i > Len(data) THEN lists
    ELSE AlertLoop(data, i + 1,
            alert_step(data[i]["Tail Number"], Statuses(RoleData(data[i])), lists))

\* lines 386-399
AlertLists(data) == AlertLoop(data, 1, [critical |-> <<>>, warning |-> <<>>])

(***************************************************************************)
(* The session table.                                                      *)
(***************************************************************************)
Row(tail, ca_in, ca_max, ca_el, fo_in, fo_max, fo_el, cabin_in, cabin_max, cabin_el) ==
    ("Tail Number" :> tail)
    @@ ("CA Check-in" :> ca_in)
    @@ ("CA Max FDP (hours)" :> ca_max)
    @@ ("CA Elapsed FDP (HHMM)" :> ca_el)
    @@ ("FO Check-in" :> fo_in)
    @@ ("FO Max FDP (hours)" :> fo_max)
    @@ ("FO Elapsed FDP (HHMM)" :> fo_el)
    @@ ("Cabin Check-in" :> cabin_in)
    @@ ("Cabin Max FDP (hours)" :> cabin_max)
    @@ ("Cabin Elapsed FDP (HHMM)" :> cabin_el)

\* initialize_aircraft_data: the three sample rows
initialize_aircraft_data ==
    << Row(StrV(<<"N", "1", "2", "3", "A", "A">>),
           StrV(<<"0", "8", "0", "0">>), FloatV(13), StrV(<<"0", "4", "3", "0">>),
           StrV(<<"0", "8", "0", "0">>), FloatV(13), StrV(<<"0", "4", "3", "0">>),
           StrV(<<"0", "7", "3", "0">>), FloatV(14), StrV(<<"0", "5", "0", "0">>)),
       Row(StrV(<<"N", "4", "5", "6", "B", "B">>),
           StrV(<<"0", "6", "0", "0">>), FloatV(14), StrV(<<"0", "8", "3", "0">>),
           StrV(<<"0", "6", "0", "0">>), FloatV(14), StrV(<<"0", "8", "3", "0">>),
           StrV(<<"0", "5", "3", "0">>), FloatV(14), StrV(<<"0", "9", "0", "0">>)),
       Row(StrV(<<"N", "7", "8", "9", "C", "C">>),
           StrV(<<"1", "2", "0", "0">>), FloatV(12), StrV(<<"0", "2", "3", "0">>),
           StrV(<<"1", "2", "0", "0">>), FloatV(12), StrV(<<"0", "2", "3", "0">>),
           StrV(<<"1", "1", "3", "0">>), FloatV(13), StrV(<<"0", "3", "0", "0">>)) >>

\* lines 312-329: the row the form appends, or the table as it was when the
\* tail number is empty
AddedTo(data, tail_number, ca_checkin, fo_checkin, cabin_checkin, ca_elapsed, fo_elapsed, cabin_elapsed) ==
    IF tail_number = StrV(<<>>) THEN data
    ELSE Append(data,
            Row(tail_number,
                ca_checkin, calculate_fdp_limits(ca_checkin, 2), ca_elapsed,
                fo_checkin, calculate_fdp_limits(fo_checkin, 2), fo_elapsed,
                cabin_checkin, calculate_fdp_limits(cabin_checkin, 2), cabin_elapsed))

\* lines 426-428: the cell rewritten
plus30(current_minutes) ==
    minutes_to_hhmm(IntV(current_minutes.val.n + 30)).val

RECURSIVE SimulateLoop(_, _)

\* lines 424-428: one cell; '0000' is left alone, and an exception of
\* hhmm_to_minutes ends the loop with what it has written
simulate_cell(data, k, idx, col, current_minutes) ==
    IF data[idx][col] = StrV(<<"0", "0", "0", "0">>) THEN SimulateLoop(data, k + 1)
    ELSE IF current_minutes.exc # "none"
    THEN [data |-> data, exc |-> current_minutes.exc]
    ELSE SimulateLoop([data EXCEPT ![idx][col] = plus30(current_minutes)], k + 1)

simulate_at(data, k, idx, col) ==
    simulate_cell(data, k, idx, col, hhmm_to_minutes(data[idx][col]))

\* lines 421-428: the loop of "Simulate +30min" from cell k on, the cells being
\* the three elapsed columns row by row
SimulateLoop(data, k) ==
    IF k >= 3 * Len(data) THEN [data |-> data, exc |-> "none"]
    ELSE simulate_at(data, k, (k \div 3) + 1, ElapsedColumn(Roles[(k % 3) + 1]))

(***************************************************************************)
(* One script run of main over the table, and the handlers.                *)
(***************************************************************************)
\* the panels of one run of main
Shown(data, sidebar, dashboard, alerts) ==
    /\ run_data' = data
    /\ stats' = sidebar
    /\ progress' = [i \in 1..Len(dashboard) |-> dashboard[i].progress]
    /\ cards' = [i \in 1..Len(dashboard) |-> dashboard[i].card]
    /\ critical_aircraft' = alerts.critical
    /\ warning_aircraft' = alerts.warning

\* what a run of main shows for the table it reads
Render(data) ==
    Shown(data, SidebarStats(data), Dashboard(data), AlertLists(data))

Text(s) == StrV(s)

\* what the model types into the form of the sidebar
TailInputs == {Text(<<>>), Text(<<"N", "1">>)}
CACheckInInputs == {Text(<<"0", "8", "0", "0">>)}
FOCheckInInputs == {Text(<<"0", "8", "0", "0">>)}
CabinCheckInInputs == {Text(<<"0", "7", "3", "0">>)}
CAElapsedInputs == {Text(<<"0", "0", "0", "0">>), Text(<<"i", "n", "f">>)}
FOElapsedInputs == {Text(<<"0", "0", "0", "0">>), Text(<<"2", "3", "3", "0">>)}
CabinElapsedInputs == {Text(<<"0", "0", "0", "0">>)}

CallIdle ==
    /\ pc = "app"
    /\ arg = None
    /\ mid = Ok(None)
    /\ ret = Ok(None)

\* the first run of main: initialize_aircraft_data, then the three panels
FirstShown(data, sidebar, dashboard, alerts) ==
    /\ aircraft_data = data
    /\ run_data = data
    /\ stats = sidebar
    /\ progress = [i \in 1..Len(dashboard) |-> dashboard[i].progress]
    /\ cards = [i \in 1..Len(dashboard) |-> dashboard[i].card]
    /\ critical_aircraft = alerts.critical
    /\ warning_aircraft = alerts.warning

Init ==
    /\ FirstShown(initialize_aircraft_data, SidebarStats(initialize_aircraft_data),
                  Dashboard(initialize_aircraft_data),
                  AlertLists(initialize_aircraft_data))
    /\ uncaught = "none"
    /\ CallIdle

\* "Add Aircraft": the form's handler, then the panels of the same run
AddAircraft ==
    /\ Len(aircraft_data) < MaxRows
    /\ \E tail_number \in TailInputs, ca_checkin \in CACheckInInputs,
          fo_checkin \in FOCheckInInputs, cabin_checkin \in CabinCheckInInputs,
          ca_elapsed \in CAElapsedInputs, fo_elapsed \in FOElapsedInputs,
          cabin_elapsed \in CabinElapsedInputs :
            /\ aircraft_data' = AddedTo(aircraft_data, tail_number, ca_checkin,
                                        fo_checkin, cabin_checkin, ca_elapsed,
                                        fo_elapsed, cabin_elapsed)
            /\ Render(aircraft_data')
    /\ uncaught' = "none"
    /\ UNCHANGED callvars

\* "Simulate +30min": the run shows the table, the handler rewrites it and
\* st.rerun() shows it again; an exception of the handler ends the run with
\* the cells written so far
Simulated(r) ==
    /\ aircraft_data' = r.data
    /\ uncaught' = r.exc
    /\ Render(IF r.exc = "none" THEN r.data ELSE aircraft_data)

SimulatePlus30 ==
    /\ Simulated(SimulateLoop(aircraft_data, 0))
    /\ UNCHANGED callvars

\* "Manual Refresh Now" and the auto-refresh: one more run over the table
Rerun ==
    /\ Render(aircraft_data)
    /\ uncaught' = "none"
    /\ UNCHANGED <<aircraft_data, pc, arg, mid, ret>>

Next == AddAircraft \/ SimulatePlus30 \/ Rerun

Spec == Init /\ [][Next]_vars

(***************************************************************************)
(* Single calls of the functions, on inputs drawn from bounded sets.       *)
(***************************************************************************)
AppIdle ==
    /\ aircraft_data = <<>>
    /\ run_data = <<>>
    /\ stats = NoStats
    /\ progress = <<>>
    /\ cards = <<>>
    /\ critical_aircraft = <<>>
    /\ warning_aircraft = <<>>
    /\ uncaught = "none"

HHMM(h, m) == Format02d(h) \o Format02d(m)

\* every clock time "0000".."2359"
ClockTimes == {Text(HHMM(h, m)) : h \in 0..23, m \in 0..59}

\* values that are no clock time
OddInputs ==
    {None, NaN, Text(<<>>), Text(<<"a", "b", "c", "d">>), Text(<<"8", ":", "0", "0">>),
     Text(<<"i", "n", "f">>), Text(<<"-", "i", "n", "f">>), Text(<<"n", "a", "n">>),
     Text(<<"2", "4", "0", "0">>), Text(<<"0", "0", "6", "0">>), Text(<<"9", "9", "9", "9">>),
     Text(<<"-", "5">>), Text(<<"-", "1", "3", "0">>), Text(<<"1", "2", ".", "7">>),
     Text(<<" ", "8", "0", "0">>), Text(<<"4", "3", "0">>), Text(<<"1", "2", "3", "4", "5">>),
     Text(<<"1", "0", "0", "0", "0", "0">>), IntV(430), IntV(-5), FloatV(1230)}

---------------------------------------------------------------------------
\* the codec: decode, encode, and the two round trips
InitCodec ==
    /\ AppIdle
    /\ pc = "start"
    /\ arg \in ClockTimes \cup OddInputs \cup {IntV(m) : m \in 0..MaxMinutes}
    /\ mid = Ok(None)
    /\ ret = Ok(None)

Decode ==
    /\ pc = "start"
    /\ ret' = hhmm_to_minutes(arg)
    /\ mid' = ret'
    /\ pc' = "decoded"
    /\ UNCHANGED <<arg, appvars>>

Encode ==
    /\ pc = "start"
    /\ arg.k = "int"
    /\ ret' = minutes_to_hhmm(arg)
    /\ pc' = "encoded"
    /\ UNCHANGED <<arg, mid, appvars>>

DecodeEncoded ==
    /\ pc = "encoded"
    /\ ret.exc = "none"
    /\ ret' = hhmm_to_minutes(ret.val)
    /\ pc' = "wrapped"
    /\ UNCHANGED <<arg, mid, appvars>>

EncodeDecoded ==
    /\ pc = "decoded"
    /\ ret.exc = "none"
    /\ ret' = minutes_to_hhmm(ret.val)
    /\ pc' = "reencoded"
    /\ UNCHANGED <<arg, mid, appvars>>

DecodeReencoded ==
    /\ pc = "reencoded"
    /\ ret.exc = "none"
    /\ ret' = hhmm_to_minutes(ret.val)
    /\ pc' = "redecoded"
    /\ UNCHANGED <<arg, mid, appvars>>

NextCodec == Decode \/ Encode \/ DecodeEncoded \/ EncodeDecoded \/ DecodeReencoded

SpecCodec == InitCodec /\ [][NextCodec]_vars

---------------------------------------------------------------------------
\* the FDP limit lookup
\* what str() is applied to: text of the form, or an int
CheckInInputs == ClockTimes \cup (OddInputs \ {None, NaN, FloatV(1230)})

InitFdp ==
    /\ AppIdle
    /\ pc = "start"
    /\ arg \in [check_in : CheckInInputs, segments : 1..MaxSegments]
    /\ mid = Ok(None)
    /\ ret = Ok(None)

ResolveLimit ==
    /\ pc = "start"
    /\ ret' = Ok(calculate_fdp_limits(arg.check_in, arg.segments))
    /\ pc' = "resolved"
    /\ UNCHANGED <<arg, mid, appvars>>

NextFdp == ResolveLimit

SpecFdp == InitFdp /\ [][NextFdp]_vars

---------------------------------------------------------------------------
\* the evaluation of one role of one row
EvalMinutes == {0, 1, 30, 59}

ElapsedInputs == {Text(HHMM(h, m)) : h \in 0..23, m \in EvalMinutes} \cup OddInputs

MaxInputs ==
    {IntV(h) : h \in 0..MaxHours} \cup {FloatV(12), FloatV(13), FloatV(14)}
    \cup {None, NaN, Text(<<"1", "3">>)}

Without(row, column) == [c \in DOMAIN row \ {column} |-> row[c]]

EvalRows(crew_type) ==
    LET base == initialize_aircraft_data[1]
    IN  {[base EXCEPT ![MaxColumn(crew_type)] = m, ![ElapsedColumn(crew_type)] = e] :
            m \in MaxInputs, e \in ElapsedInputs}
        \cup {Without(base, MaxColumn(crew_type)), Without(base, ElapsedColumn(crew_type))}

InitEval ==
    /\ AppIdle
    /\ pc = "start"
    /\ \E crew_type \in {"CA", "FO", "Cabin"} :
          arg \in [row : EvalRows(crew_type), crew_type : {crew_type}]
    /\ mid = Ok(None)
    /\ ret = Ok(None)

Evaluate ==
    /\ pc = "start"
    /\ ret' = calculate_progress_data(arg.row, arg.crew_type)
    /\ pc' = "evaluated"
    /\ UNCHANGED <<arg, mid, appvars>>

NextEval == Evaluate

SpecEval == InitEval /\ [][NextEval]_vars

(***************************************************************************)
(* The properties.                                                         *)
(***************************************************************************)
RoleSet == {"CA", "FO", "Cabin"}

\* the regulatory table: the limit for a check-in hour and a segment count
TableLimit(hour, segments) ==
    IF 5 <= hour /\ hour <= 7 THEN (IF segments <= 2 THEN 14 ELSE 13)
    ELSE IF 8 <= hour /\ hour <= 12 THEN (IF segments <= 2 THEN 13 ELSE 12)
    ELSE IF 13 <= hour /\ hour <= 16 THEN (IF segments <= 2 THEN 12 ELSE 11)
    ELSE (IF segments <= 2 THEN 11 ELSE 10)

\* C1: for every 4-digit check-in time and every positive segment count,
\* calculate_fdp_limits returns the limit of the regulatory table: 14/13 for
\* the hours 05-07, 13/12 for 08-12, 12/11 for 13-16 and 11/10 for the others.
C1_FdpTable ==
    (pc = "resolved" /\ arg.check_in \in ClockTimes)
        => ret.val = IntV(TableLimit(StrToNat(SubSeq(arg.check_in.s, 1, 2)),
                                     arg.segments))

\* C2: an evaluation that does not fail has its status decided by the
\* remaining minutes alone: critical up to 60, warning up to 120, ok above.
C2_StatusByRemaining ==
    (pc = "evaluated" /\ ret.val.status # "error")
        => ret.val.status =
              (IF ret.val.remaining_minutes.n <= 60 THEN "critical"
               ELSE IF ret.val.remaining_minutes.n <= 120 THEN "warning"
               ELSE "ok")

\* an evaluation with 61 minutes remaining, which is a warning
C2_Witness ==
    /\ pc = "evaluated"
    /\ ret.val.status = "warning"
    /\ ret.val.remaining_minutes.n = 61

HasError(i) == \E c \in RoleSet : progress[i][c].status = "error"

\* C3: an aircraft with a role in the error tier is never shown as normal: it
\* does not get the normal card, and it is in one of the two alert lists.
C3_ErrorNeverNormal ==
    \A i \in 1..Len(run_data) :
        HasError(i)
            => /\ cards[i].card_class # "aircraft-card"
               /\ \/ In(run_data[i]["Tail Number"], critical_aircraft)
                  \/ In(run_data[i]["Tail Number"], warning_aircraft)

\* C4: for every minute count m >= 0, decoding the encoding of m gives
\* m mod 1440; and for every valid clock time, decoding, encoding and decoding
\* again gives what the first decoding gave.
C4_WrapLaw ==
    /\ (pc = "wrapped" /\ arg.k = "int" /\ arg.n >= 0)
           => ret = Ok(IntV(arg.n % 1440))
    /\ (pc = "redecoded" /\ arg \in ClockTimes) => ret = mid

\* 1500 minutes encoded and decoded again are 60 minutes
C4_Witness ==
    /\ pc = "wrapped"
    /\ arg = IntV(1500)
    /\ ret = Ok(IntV(60))

\* C5: hhmm_to_minutes raises for no input, and its result lies in 0..1439.
C5_DecodeNeverRaises ==
    pc = "decoded" => (ret.exc = "none" /\ ret.val.n \in 0..1439)

\* C6: calculate_progress_data raises for no row and no role, and when its
\* body fails it returns the error record: status error, percent 0, the three
\* durations "0000" and the gray color.
C6_FailuresAbsorbed ==
    pc = "evaluated"
        => /\ ret.exc = "none"
           /\ progress_try(arg.row, arg.crew_type).exc # "none"
                  => /\ ret.val.status = "error"
                     /\ ret.val.progress_percent = [num |-> 0, den |-> 1]
                     /\ ret.val.remaining_hhmm = Text(<<"0", "0", "0", "0">>)
                     /\ ret.val.elapsed_hhmm = Text(<<"0", "0", "0", "0">>)
                     /\ ret.val.max_hhmm = Text(<<"0", "0", "0", "0">>)
                     /\ ret.val.color = "#95a5a6"

\* a row without its max-FDP field, evaluated to the error record
C6_Witness ==
    /\ pc = "evaluated"
    /\ MaxColumn(arg.crew_type) \notin DOMAIN arg.row
    /\ ret = Ok(ErrorData)

\* the evaluation of h hours against an elapsed time that decodes
Decodable(row, crew_type) ==
    /\ MaxColumn(crew_type) \in DOMAIN row
    /\ ElapsedColumn(crew_type) \in DOMAIN row
    /\ row[MaxColumn(crew_type)].k \in {"int", "float"}
    /\ row[MaxColumn(crew_type)].n >= 0
    /\ hhmm_to_minutes(row[ElapsedColumn(crew_type)]).exc = "none"

Clamped(n) == IF n > 0 THEN n ELSE 0

RemainingLaw(max_minutes, elapsed_minutes, data) ==
    /\ data.status # "error"
    /\ data.remaining_minutes.n = Clamped(max_minutes - elapsed_minutes)
    /\ data.remaining_minutes.n >= 0
    /\ data.progress_percent.den > 0
    /\ data.progress_percent.num >= 0
    /\ data.progress_percent.num <= 100 * data.progress_percent.den
    /\ max_minutes = 0 => data.progress_percent.num = 0
    /\ (max_minutes > 0 /\ elapsed_minutes >= max_minutes)
           => /\ data.remaining_minutes.n = 0
              /\ data.progress_percent = [num |-> 100, den |-> 1]

\* C7: for max hours h and an elapsed time e that decodes, the remaining
\* minutes are max(0, h*60 - decode(e)) and never negative, the percent lies
\* in 0..100 and is 0 when the maximum is 0, and when h > 0 and
\* decode(e) >= h*60 the remaining is 0 and the percent is exactly 100.
C7_RemainingAndPercent ==
    (pc = "evaluated" /\ Decodable(arg.row, arg.crew_type))
        => RemainingLaw(arg.row[MaxColumn(arg.crew_type)].n * 60,
                        hhmm_to_minutes(arg.row[ElapsedColumn(arg.crew_type)]).val.n,
                        ret.val)

\* 9 hours against "0930": nothing remains and the percent is 100
C7_Witness ==
    /\ pc = "evaluated"
    /\ Decodable(arg.row, arg.crew_type)
    /\ arg.row[MaxColumn(arg.crew_type)] = IntV(9)
    /\ arg.row[ElapsedColumn(arg.crew_type)] = Text(<<"0", "9", "3", "0">>)
    /\ ret.val.remaining_minutes.n = 0
    /\ ret.val.progress_percent = [num |-> 100, den |-> 1]

\* the tail numbers of the rows of the last run whose index is in S, in order
RECURSIVE TailsFrom(_, _)
TailsFrom(S, i) ==
    IF i > Len(run_data) THEN <<>>
    ELSE IF i \in S THEN <<run_data[i]["Tail Number"]>> \o TailsFrom(S, i + 1)
    ELSE TailsFrom(S, i + 1)

CriticalRows ==
    {i \in 1..Len(run_data) : \E c \in RoleSet : progress[i][c].status = "critical"}

WarningRows ==
    {i \in 1..Len(run_data) : \E c \in RoleSet : progress[i][c].status = "warning"}

\* C8: the critical list holds exactly the aircraft with a critical role, the
\* warning list exactly those with a warning role and no critical role, total
\* is the number of rows, and the sidebar's counts are the lengths of the two
\* lists of the same run.
C8_FleetPartition ==
    /\ critical_aircraft = TailsFrom(CriticalRows, 1)
    /\ warning_aircraft = TailsFrom(WarningRows \ CriticalRows, 1)
    /\ stats.total = Len(run_data)
    /\ stats.critical_count = Len(critical_aircraft)
    /\ stats.warning_count = Len(warning_aircraft)

\* a run with an aircraft in each list, one of them with both a critical and a
\* warning role, and an aircraft in neither list
C8_Witness ==
    /\ Len(critical_aircraft) >= 1
    /\ Len(warning_aircraft) >= 1
    /\ Len(critical_aircraft) + Len(warning_aircraft) < Len(run_data)
    /\ CriticalRows \cap WarningRows # {}

AllTiered(i) ==
    \A c \in RoleSet : progress[i][c].status \in {"critical", "warning", "ok"}

WorstCard(i) ==
    IF i \in CriticalRows THEN "critical-card"
    ELSE IF i \in WarningRows THEN "warning-card"
    ELSE "aircraft-card"

CardRows(class) == {i \in 1..Len(run_data) : cards[i].card_class = class}

\* C9: an aircraft whose three statuses are critical, warning or ok gets the
\* card of its most severe role, and the cards agree with the alert lists:
\* the critical list is the aircraft with the critical card, the warning list
\* the aircraft with the warning card.
C9_CardIsWorstRole ==
    /\ \A i \in 1..Len(run_data) :
           AllTiered(i) => cards[i].card_class = WorstCard(i)
    /\ critical_aircraft = TailsFrom(CardRows("critical-card"), 1)
    /\ warning_aircraft = TailsFrom(CardRows("warning-card"), 1)

\* an aircraft with a critical and a warning role, shown with the critical card
C9_Witness ==
    \E i \in 1..Len(run_data) :
        /\ AllTiered(i)
        /\ i \in CriticalRows \cap WarningRows
        /\ cards[i].card_class = "critical-card"
        /\ In(run_data[i]["Tail Number"], critical_aircraft)

Severity(status) ==
    IF status = "critical" THEN 2 ELSE IF status = "warning" THEN 1 ELSE 0

Decoded(data, i, c) == hhmm_to_minutes(data[i][ElapsedColumn(c)]).val.n

StatusIn(data, i, c) == calculate_progress_data(data[i], c).val.status

\* every elapsed field of the table is a valid clock time
AllClockTimes(data) ==
    \A i \in 1..Len(data) : \A c \in RoleSet : data[i][ElapsedColumn(c)] \in ClockTimes

\* C10: from a table whose elapsed fields are all valid clock times, a step
\* that edits no row otherwise ("Simulate +30min") decreases no role's decoded
\* elapsed minutes and makes no role's status less severe.
C10_SimulateNeverRegresses ==
    [][(AllClockTimes(aircraft_data) /\ Len(aircraft_data') = Len(aircraft_data))
          => \A i \in 1..Len(aircraft_data) : \A c \in RoleSet :
                /\ Decoded(aircraft_data', i, c) >= Decoded(aircraft_data, i, c)
                /\ Severity(StatusIn(aircraft_data', i, c))
                       >= Severity(StatusIn(aircraft_data, i, c))]_vars

====
